---------------------------- MODULE Spec2Model ----------------------------
(***************************************************************************)
(* A model of gogoo: the datastore access layer (package gds), the GCE     *)
(* status-polling loops (package gce) and the helpers they use.  The cloud *)
(* services themselves (datastore, compute) are the environment: they are  *)
(* modelled by the outcomes their client libraries document, and every     *)
(* remote call may also fail.                                              *)
(***************************************************************************)
EXTENDS Integers, Sequences, FiniteSets, TLC

VARIABLES
    store,      \* the datastore: complete key -> stored entity or NoEntity
    pu,         \* the PutUnique callers (goroutines): caller -> call record
    call,       \* the last sequential Manager call (Put/Get/Delete) and its result
    deleted,    \* the keys a Delete that returned nil took, not successfully put since
    total,      \* how many entities match the iterated query
    iter,       \* the running Iterate call and its op goroutines
    batch,      \* the running BatchIterate call
    calls,      \* entity -> how often op was invoked with it
    mgr,        \* the running gce.Manager call
    probe,      \* the probe goroutine that call started
    vmTags,     \* the tag list of the VM (vm.Tags.Items), as the cloud holds it
    util        \* the last call of a helper or thin wrapper, and what it returned

gdsVars == <<store, pu, call, deleted>>
iterVars == <<total, iter, batch, calls>>
gceVars == <<mgr, probe>>
utilVars == <<vmTags, util>>
vars == <<store, pu, call, deleted, total, iter, batch, calls, mgr, probe, vmTags, util>>

-----------------------------------------------------------------------------
(* Keys and entities (google.golang.org/cloud/datastore, as gds uses it)    *)

Kinds == {"A", "B"}
Names == {"n1", "n2"}

\* a nil *datastore.Key
NilKey == [nil |-> TRUE, kind |-> "", name |-> ""]

\* gds.Manager.BuildKey: datastore.NewKey(ctx, kind, keyName, 0, nil)
BuildKey(kind, keyName) == [nil |-> FALSE, kind |-> kind, name |-> keyName]

\* Key.Incomplete(): no name and no id (BuildKey always passes id 0)
Incomplete(key) == key.name = ""

CompleteKeys == {BuildKey(k, n) : k \in Kinds, n \in Names}
IncompleteKeys == {BuildKey(k, "") : k \in Kinds}
AllKeys == CompleteKeys \cup IncompleteKeys \cup {NilKey}

\* the struct types an entity argument can have; "invalid" is an argument that
\* is no pointer to a struct
Types == {"Article", "Other"}
MaxVal == 2
Vals == 1..MaxVal

NoEntity == [type |-> "none", n |-> 0]
Entities == [type : Types, n : Vals]

EmptyStore == [k \in CompleteKeys |-> NoEntity]

Stored(s, key) == key \in CompleteKeys /\ s[key] # NoEntity


\* an entity argument (a Go struct behind a pointer): its Key field and its data
ZeroStruct == [Key |-> NilKey, type |-> "Article", n |-> 0]

\* reflect: FieldByName("Key") is valid and settable (Article has the field)
HasKeyField(type) == type = "Article"

-----------------------------------------------------------------------------
(* The datastore client, by its documented outcomes.  rpc is "ok" or "fail": *)
(* whether the remote call itself went through.                             *)

RpcOutcomes == {"ok", "fail"}

\* Client.Get / Transaction.Get: the error it returns
ClientGetErr(s, key, dstType, rpc) ==
    IF dstType = "invalid" THEN "ErrInvalidEntityType"
    ELSE IF key.nil \/ Incomplete(key) THEN "ErrInvalidKey"
    ELSE IF rpc = "fail" THEN "rpc error"
    ELSE IF s[key] = NoEntity THEN "ErrNoSuchEntity"
    ELSE IF s[key].type # dstType THEN "ErrFieldMismatch"
    ELSE "nil"

\* Client.Put: the error it returns (the key is complete or nil here)
ClientPutErr(key, srcType, rpc) ==
    IF key.nil THEN "ErrInvalidKey"
    ELSE IF srcType = "invalid" THEN "ErrInvalidEntityType"
    ELSE IF rpc = "fail" THEN "rpc error"
    ELSE "nil"

\* Client.Delete: the error it returns; deleting a missing entity is no error
ClientDeleteErr(key, rpc) ==
    IF key.nil THEN "ErrInvalidKey"
    ELSE IF Incomplete(key) THEN "incomplete key"
    ELSE IF rpc = "fail" THEN "rpc error"
    ELSE "nil"

-----------------------------------------------------------------------------
(* gds.Manager: the sequential calls.  Each action is one whole call; call  *)
(* records it: the store before (pre), the entity argument before (dst0)    *)
(* and after (dst1), the returned key (ret) and error (err).                *)

NoCall == [op |-> "none", key |-> NilKey, err |-> "nil", pre |-> EmptyStore,
           dst0 |-> ZeroStruct, dst1 |-> ZeroStruct, ret |-> NilKey]

\* a nil pointer dereference ended the program
GdsCrashed == call.err = "panic"

\* the entity arguments the sequential calls are tried with
GdsStructKeys == {NilKey, BuildKey("A", "n1")}
GetStructs == [Key : GdsStructKeys, type : {"Article"}, n : 0..MaxVal]
PutStructs == [Key : GdsStructKeys, type : {"Article"}, n : Vals]

\* faulty variant: the Key field is set and the argument key returned whatever
\* Client.Put answered
PutKeyedEarly(key, entity, rpc) ==
    LET err == ClientPutErr(key, entity.type, rpc) IN
    /\ ~GdsCrashed
    /\ store' = IF err = "nil"
                THEN [store EXCEPT ![key] = [type |-> entity.type, n |-> entity.n]]
                ELSE store
    /\ call' = [op |-> "Put", key |-> key, err |-> err, pre |-> store,
                dst0 |-> entity, dst1 |-> [entity EXCEPT !.Key = key], ret |-> key]
    /\ deleted' = IF err = "nil" THEN deleted \ {key} ELSE deleted
    /\ UNCHANGED <<pu, iterVars, gceVars, utilVars>>

\* Manager.Put: the entity's Key field is set only after a successful Client.Put
Put(key, entity, rpc) ==
    LET err == ClientPutErr(key, entity.type, rpc) IN
    /\ ~GdsCrashed
    /\ store' = IF err = "nil"
                THEN [store EXCEPT ![key] = [type |-> entity.type, n |-> entity.n]]
                ELSE store
    /\ call' = [op |-> "Put", key |-> key, err |-> err, pre |-> store,
                dst0 |-> entity,
                dst1 |-> IF err = "nil" /\ HasKeyField(entity.type)
                         THEN [entity EXCEPT !.Key = key] ELSE entity,
                ret |-> IF err = "nil" THEN key ELSE NilKey]
    /\ deleted' = IF err = "nil" THEN deleted \ {key} ELSE deleted
    /\ UNCHANGED <<pu, iterVars, gceVars, utilVars>>

\* faulty variant: the Key field is set before the error is looked at
GetSetsKeyAlways(key, dst, err) ==
    IF err = "nil"
    THEN [Key |-> key, type |-> dst.type, n |-> store[key].n]
    ELSE [dst EXCEPT !.Key = key]

\* the destination after Manager.Get: loaded and keyed on success only
GetSetsKey(key, dst, err) ==
    IF err = "nil"
    THEN [Key |-> IF HasKeyField(dst.type) THEN key ELSE dst.Key,
          type |-> dst.type, n |-> store[key].n]
    ELSE dst

\* Manager.Get: key.Name() in the log line dereferences the key first
Get(key, dst, rpc) ==
    LET err == IF key.nil THEN "panic" ELSE ClientGetErr(store, key, dst.type, rpc) IN
    /\ ~GdsCrashed
    /\ call' = [op |-> "Get", key |-> key, err |-> err, pre |-> store,
                dst0 |-> dst, dst1 |-> GetSetsKey(key, dst, err), ret |-> NilKey]
    /\ UNCHANGED <<store, pu, deleted, iterVars, gceVars, utilVars>>

\* the error Manager.Delete returns: a nil key is refused before the client call
DeleteErr(key, rpc) ==
    IF key.nil THEN "Key cann't be null" ELSE ClientDeleteErr(key, rpc)

\* faulty variant: the delete takes every entity of the key's kind with it
DeleteFromKind(s, key) ==
    [k \in CompleteKeys |-> IF k.kind = key.kind THEN NoEntity ELSE s[k]]

\* faulty variant: the delete leaves the entity where it is
DeleteFromNothing(s, key) == s

\* the store after Client.Delete(key) went through
DeleteFrom(s, key) == [s EXCEPT ![key] = NoEntity]

\* Manager.Delete
Delete(key, rpc) ==
    LET err == DeleteErr(key, rpc) IN
    /\ ~GdsCrashed
    /\ store' = IF err = "nil" THEN DeleteFrom(store, key) ELSE store
    /\ call' = [op |-> "Delete", key |-> key, err |-> err, pre |-> store,
                dst0 |-> ZeroStruct, dst1 |-> ZeroStruct, ret |-> NilKey]
    /\ deleted' = IF err = "nil" THEN deleted \cup {key} ELSE deleted
    /\ UNCHANGED <<pu, iterVars, gceVars, utilVars>>

\* a query for the entities of a kind whose number is over min, and the orders
\* the datastore can yield them in
Matching(s, kindName, min) ==
    {k \in CompleteKeys : k.kind = kindName /\ s[k] # NoEntity /\ s[k].n > min}
Orders(S) ==
    {o \in [1..Cardinality(S) -> S] : \A i, j \in 1..Cardinality(S) : o[i] = o[j] => i = j}

\* the result slices GetAll is tried with (type *[]*Article) and the filters
GetAllResults == {<<>>, <<ZeroStruct>>}
GetAllMins == {0, 1}

\* Client.GetAll appends the loaded entities to the slice and returns their keys
LoadedBy(s, keys) ==
    [i \in 1..Len(keys) |-> [Key |-> NilKey, type |-> "Article", n |-> s[keys[i]].n]]

\* faulty variant: every entity gets the first key
KeyAtFirst(keys, i) == keys[1]

\* keys[i], the key written into the i-th element of the slice
KeyAt(keys, i) == keys[i]

\* Manager.GetAll: Client.GetAll, then the Key field of each element of the
\* slice is set to keys[i].  The loop runs over the whole slice: with elements
\* in it before the call it runs past the end of keys (index out of range).
\* In call, dst0 and dst1 hold the slice before and after, ret the returned keys.
GetAll(kindName, min, result, keys, rpc) ==
    LET slice == result \o LoadedBy(store, keys)
        err == IF rpc = "fail" THEN "rpc error"
               ELSE IF Len(slice) > Len(keys) THEN "panic"
               ELSE "nil"
    IN
    /\ ~GdsCrashed
    /\ keys \in Orders(Matching(store, kindName, min))
    /\ call' = [op |-> "GetAll", key |-> BuildKey(kindName, ""), err |-> err,
                pre |-> store, dst0 |-> result,
                dst1 |-> IF err = "nil"
                         THEN [i \in 1..Len(slice) |->
                                    [slice[i] EXCEPT !.Key = KeyAt(keys, i)]]
                         ELSE result,
                ret |-> IF err = "nil" THEN keys ELSE <<>>]
    /\ UNCHANGED <<store, pu, deleted, iterVars, gceVars, utilVars>>

\* the keys a keys-only query for a kind yields: those with an entity stored
KeysOfKind(s, kindName) == {k \in CompleteKeys : k.kind = kindName /\ s[k] # NoEntity}

\* Manager.DeleteAll: the keys of the kind are fetched, each is handed to Delete,
\* a Delete that fails is logged and passed over, and nil is returned; fails
\* holds the keys whose delete call does not go through.  call.key holds the kind.
DeleteAll(kindName, rpc, fails) ==
    LET keys == KeysOfKind(store, kindName)
        gone == {k \in keys : DeleteErr(k, IF k \in fails THEN "fail" ELSE "ok") = "nil"}
    IN
    /\ ~GdsCrashed
    /\ fails \subseteq keys
    /\ store' = IF rpc = "fail" THEN store
                ELSE [k \in CompleteKeys |-> IF k \in gone THEN DeleteFrom(store, k)[k]
                                                           ELSE store[k]]
    /\ deleted' = IF rpc = "fail" THEN deleted ELSE deleted \cup gone
    /\ call' = [op |-> "DeleteAll", key |-> BuildKey(kindName, ""),
                err |-> IF rpc = "fail" THEN "rpc error" ELSE "nil", pre |-> store,
                dst0 |-> ZeroStruct, dst1 |-> ZeroStruct, ret |-> NilKey]
    /\ UNCHANGED <<pu, iterVars, gceVars, utilVars>>

-----------------------------------------------------------------------------
(* Manager.PutUnique, step by step: its callers run concurrently and each   *)
(* works in a datastore transaction of its own.  The datastore commits a    *)
(* transaction only if no entity it read was written since (optimistic      *)
(* concurrency): read is whether the transaction registered its read of the *)
(* key, stale whether the key was written after that.                       *)

NumProcs == 2
Procs == 1..NumProcs

\* the keys and entity arguments PutUnique is tried with
TxKeys == {NilKey, BuildKey("A", "n1"), BuildKey("A", "n2")}
TxStructs == [Key : {NilKey}, type : Types \cup {"invalid"}, n : {1}]

IdlePu == [pc |-> "idle", key |-> NilKey, ent |-> ZeroStruct, before |-> NoEntity,
           after |-> NoEntity, read |-> FALSE, stale |-> FALSE, err |-> "none"]

\* what is stored under key (nothing under a nil key)
StoredAt(s, key) == IF key \in CompleteKeys THEN s[key] ELSE NoEntity

\* a nil pointer dereference in one goroutine ends the whole program
TxCrashed == \E p \in Procs : pu[p].pc = "panic"

\* Manager.GetTx: the error of NewTransaction is dropped, a failed one leaves tx nil
GetTx(txOk) == IF txOk THEN "tx" ELSE "nil"

\* PutUnique is called: the log line dereferences key, GetTx opens the transaction
PutUniqueCall(p, key, entity, txOk) ==
    /\ ~TxCrashed
    /\ pu[p].pc \in {"idle", "done"}
    /\ pu' = [pu EXCEPT ![p] =
                [pc |-> IF key.nil \/ GetTx(txOk) = "nil" THEN "panic" ELSE "get",
                 key |-> key, ent |-> entity, before |-> StoredAt(store, key),
                 after |-> NoEntity, read |-> FALSE, stale |-> FALSE, err |-> "none"]]
    /\ UNCHANGED <<store, call, deleted, iterVars, gceVars, utilVars>>

\* whether PutUnique goes on to write after tx.Get returned err
PutUniqueProceeds(err) == err # "nil"

\* tx.Get(key, entity): an entity that loads ends the call with an error, anything
\* else goes on to the put.  A read the datastore served is registered with the
\* transaction; of a failed remote call it may or may not have been.
PutUniqueGet(p, rpc, registered) ==
    LET err == ClientGetErr(store, pu[p].key, pu[p].ent.type, rpc) IN
    /\ ~TxCrashed
    /\ pu[p].pc = "get"
    /\ pu' = [pu EXCEPT ![p] =
                IF PutUniqueProceeds(err)
                THEN [@ EXCEPT !.pc = "put",
                               !.read = IF err \in {"ErrNoSuchEntity", "ErrFieldMismatch"}
                                        THEN TRUE
                                        ELSE err = "rpc error" /\ registered]
                ELSE [@ EXCEPT !.pc = "done", !.read = TRUE,
                               !.after = store[pu[p].key],
                               !.err = "entity existed"]]
    /\ UNCHANGED <<store, call, deleted, iterVars, gceVars, utilVars>>

\* tx.Put(key, entity): buffered in the transaction, no remote call
PutUniquePut(p) ==
    /\ ~TxCrashed
    /\ pu[p].pc = "put"
    /\ pu' = [pu EXCEPT ![p] =
                IF pu[p].ent.type = "invalid"
                THEN [@ EXCEPT !.pc = "done", !.after = store[pu[p].key],
                               !.err = "put fails"]
                ELSE [@ EXCEPT !.pc = "commit"]]
    /\ UNCHANGED <<store, call, deleted, iterVars, gceVars, utilVars>>

\* the transactions a committed write of key makes stale
MarkStale(p, key) ==
    [q \in Procs |->
        IF q # p /\ pu[q].pc \in {"put", "commit"} /\ pu[q].read /\ pu[q].key = key
        THEN [pu[q] EXCEPT !.stale = TRUE]
        ELSE pu[q]]

\* tx.Commit(): fails on a remote failure or a concurrent write of what it read
PutUniqueCommit(p, rpc) ==
    /\ ~TxCrashed
    /\ pu[p].pc = "commit"
    /\ IF rpc = "fail" \/ pu[p].stale
       THEN /\ pu' = [pu EXCEPT ![p] = [@ EXCEPT !.pc = "done",
                                                !.after = store[pu[p].key],
                                                !.err = "commit fails"]]
            /\ UNCHANGED <<store, deleted>>
       ELSE /\ store' = [store EXCEPT ![pu[p].key] =
                            [type |-> pu[p].ent.type, n |-> pu[p].ent.n]]
            /\ deleted' = deleted \ {pu[p].key}
            /\ pu' = [MarkStale(p, pu[p].key) EXCEPT ![p] =
                            [pu[p] EXCEPT !.pc = "done", !.after = store'[pu[p].key],
                                          !.err = "nil"]]
    /\ UNCHANGED <<call, iterVars, gceVars, utilVars>>

-----------------------------------------------------------------------------
(* Manager.Iterate and Manager.BatchIterate.  The query matches the         *)
(* entities 1..total, in this order; entity e has key e and data e.  A      *)
(* cursor is a position in that order: the cursor at pos stands after the   *)
(* first pos entities.                                                      *)

MaxEntities == 3
MaxBatch == 2
MaxCalls == 3
Slots == 1..MaxEntities

\* cursor strings: "", the encoding of a cursor, and a string that decodes to none
EmptyCursorStr == [k |-> "empty", pos |-> 0]
BadCursorStr == [k |-> "bad", pos |-> 0]
\* Cursor.String()
CursorString(pos) == [k |-> "cursor", pos |-> pos]
\* datastore.DecodeCursor
DecodeCursor(str) ==
    IF str.k = "cursor" THEN [err |-> "nil", pos |-> str.pos]
    ELSE [err |-> "bad cursor", pos |-> 0]

\* Query.Limit as the query runs it: a negative limit is no limit
WithinLimit(limit, fetched) == limit < 0 \/ fetched < limit

\* Cloneable.Clone (Article.Clone returns a copy of the value)
Clone(dst) == dst

NoGoroutines == [j \in Slots |-> [st |-> "none", key |-> 0, dst |-> 0]]
NoInvocations == [pr \in Slots \X Slots |-> 0]
NoCalls == [e \in Slots |-> 0]

IdleIter == [pc |-> "idle", owner |-> "none", cursorStr |-> EmptyCursorStr, limit |-> -1,
             start |-> 0, pos |-> 0, dst |-> 0, entityArr |-> <<>>, i |-> 1, wg |-> 0,
             g |-> NoGoroutines, inv |-> NoInvocations,
             nxt |-> EmptyCursorStr, err |-> "none"]

IdleBatch == [pc |-> "idle", batchSize |-> 0, cursor |-> EmptyCursorStr, count |-> 0,
              err |-> "none"]

\* faulty variant: the decoded cursor is not applied to the query
IterateStartIgnoresCursor(cursorStr) == 0

\* where the query starts: query.Start(cursor) when a cursor string is given
IterateStart(cursorStr) ==
    IF cursorStr # EmptyCursorStr THEN DecodeCursor(cursorStr).pos ELSE 0

\* Iterate is entered: the cursor string is decoded, the query is run
IterateEnter(owner, cursorStr, limit) ==
    IF cursorStr # EmptyCursorStr /\ DecodeCursor(cursorStr).err # "nil"
    THEN [IdleIter EXCEPT !.pc = "returned", !.owner = owner, !.cursorStr = cursorStr,
                          !.limit = limit, !.err = "Bad cursor"]
    ELSE [IdleIter EXCEPT !.pc = "next", !.owner = owner, !.cursorStr = cursorStr,
                          !.limit = limit, !.start = IterateStart(cursorStr),
                          !.pos = IterateStart(cursorStr)]

\* the cursor strings and limits a direct Iterate call is tried with
IterCursorStrs == {EmptyCursorStr, BadCursorStr} \cup {CursorString(q) : q \in 0..MaxEntities}
IterLimits == -1..MaxBatch

\* Manager.Iterate called directly
IterateCall(cursorStr, limit) ==
    /\ iter.pc \in {"idle", "returned"}
    /\ batch.pc \in {"idle", "returned"}
    /\ cursorStr.pos <= total
    /\ iter' = IterateEnter("Iterate", cursorStr, limit)
    /\ batch' = IdleBatch
    /\ calls' = NoCalls
    /\ UNCHANGED <<total, gdsVars, gceVars, utilVars>>

\* it.Next(dst): the next entity is loaded into dst and appended with a clone of
\* it, until the iterator is done; a failed fetch ends the call
IterateNext(rpc) ==
    /\ iter.pc = "next"
    /\ iter' =
        IF rpc = "fail"
        THEN [iter EXCEPT !.pc = "returned", !.err = "Failed fetching results"]
        ELSE IF iter.pos < total /\ WithinLimit(iter.limit, Len(iter.entityArr))
        THEN [iter EXCEPT !.pos = @ + 1, !.dst = iter.pos + 1,
                          !.entityArr = Append(@, [Key |-> iter.pos + 1,
                                                   Dst |-> Clone(iter.pos + 1)])]
        ELSE [iter EXCEPT !.pc = "spawn", !.i = 1]
    /\ UNCHANGED <<total, batch, calls, gdsVars, gceVars, utilVars>>

\* one round of the loop over entityArr: wg.Add(1), go func(en.Key, en.Dst, &wg)
IterateSpawn ==
    /\ iter.pc = "spawn"
    /\ iter' =
        IF iter.i <= Len(iter.entityArr)
        THEN [iter EXCEPT !.wg = @ + 1, !.i = @ + 1,
                          !.g[iter.i] = [st |-> "ready",
                                         key |-> iter.entityArr[iter.i].Key,
                                         dst |-> iter.entityArr[iter.i].Dst]]
        ELSE [iter EXCEPT !.pc = "wait"]
    /\ UNCHANGED <<total, batch, calls, gdsVars, gceVars, utilVars>>

\* a goroutine calls op(key, dst)
OpStart(j) ==
    /\ iter.g[j].st = "ready"
    /\ calls[iter.g[j].key] < MaxCalls
    /\ iter' = [iter EXCEPT !.g[j].st = "running",
                            !.inv[<<iter.g[j].key, iter.g[j].dst>>] = @ + 1]
    /\ calls' = [calls EXCEPT ![iter.g[j].key] = @ + 1]
    /\ UNCHANGED <<total, batch, gdsVars, gceVars, utilVars>>

\* op returns and the deferred wg.Done() runs
OpFinish(j) ==
    /\ iter.g[j].st = "running"
    /\ iter' = [iter EXCEPT !.g[j].st = "finished", !.wg = @ - 1]
    /\ UNCHANGED <<total, batch, calls, gdsVars, gceVars, utilVars>>

\* faulty variant: Wait does not wait
WaitReturnsAtOnce(wg) == TRUE

\* wg.Wait() returns once the counter is zero
WaitReturns(wg) == wg = 0

IterateWait ==
    /\ iter.pc = "wait"
    /\ WaitReturns(iter.wg)
    /\ iter' = [iter EXCEPT !.pc = "cursor"]
    /\ UNCHANGED <<total, batch, calls, gdsVars, gceVars, utilVars>>

\* it.Cursor() and the return.  The cursor of an iterator that was given none and
\* yielded nothing may be the empty one, whose string is "".
IterateCursor(ok, bare) ==
    /\ iter.pc = "cursor"
    /\ iter' =
        IF ~ok
        THEN [iter EXCEPT !.pc = "returned", !.err = "Failed fetching cursor"]
        ELSE [iter EXCEPT !.pc = "returned", !.err = "nil",
                          !.nxt = IF bare /\ iter.pos = 0
                                     /\ iter.cursorStr = EmptyCursorStr
                                  THEN EmptyCursorStr
                                  ELSE CursorString(iter.pos)]
    /\ UNCHANGED <<total, batch, calls, gdsVars, gceVars, utilVars>>

\* Manager.BatchIterate is called: query.Limit(batchSize), cursor := ""
BatchIterateCall(batchSize) ==
    /\ batch.pc \in {"idle", "returned"}
    /\ iter.pc \in {"idle", "returned"}
    /\ batch' = [pc |-> "loop", batchSize |-> batchSize, cursor |-> EmptyCursorStr,
                 count |-> 0, err |-> "none"]
    /\ iter' = IdleIter
    /\ calls' = NoCalls
    /\ UNCHANGED <<total, gdsVars, gceVars, utilVars>>

\* the loop calls m.Iterate(query, cursor, dst, op)
BatchIterateLoop ==
    /\ batch.pc = "loop"
    /\ batch' = [batch EXCEPT !.pc = "iterating"]
    /\ iter' = IterateEnter("BatchIterate", batch.cursor, batch.batchSize)
    /\ UNCHANGED <<total, calls, gdsVars, gceVars, utilVars>>

\* Iterate returned to the loop: an error ends the call, an unchanged cursor
\* ends the loop, another cursor is where the next round starts
BatchIterateStep ==
    /\ batch.pc = "iterating"
    /\ iter.pc = "returned"
    /\ batch' =
        IF iter.err # "nil"
        THEN [batch EXCEPT !.pc = "returned", !.err = iter.err]
        ELSE IF batch.cursor = iter.nxt
        THEN [batch EXCEPT !.pc = "returned", !.err = "nil"]
        ELSE [batch EXCEPT !.pc = "loop", !.count = @ + batch.batchSize,
                           !.cursor = iter.nxt]
    /\ UNCHANGED <<total, iter, calls, gdsVars, gceVars, utilVars>>

-----------------------------------------------------------------------------
(* Strings are sequences of one-character strings.                          *)

\* strings.Split(s, sep) for a one-character separator
RECURSIVE Split(_, _)
Split(s, sep) ==
    IF \A i \in 1..Len(s) : s[i] # sep
    THEN <<s>>
    ELSE LET i == CHOOSE i \in 1..Len(s) : s[i] = sep /\ \A j \in 1..(i - 1) : s[j] # sep
         IN  <<SubSeq(s, 1, i - 1)>> \o Split(SubSeq(s, i + 1, Len(s)), sep)

\* faulty variant: the first part instead of the last
GetFirstSplit(src, separator) ==
    LET split == Split(src, separator) IN split[1]

\* GetLastSplit: the last part of the splits
GetLastSplit(src, separator) ==
    LET split == Split(src, separator) IN split[Len(split)]

-----------------------------------------------------------------------------
(* gce.Manager: the calls that wait for the cloud, and their probes.  Time  *)
(* is in seconds; a probe's elapsed is time.Now().Sub(startTime).  What a   *)
(* lookup returns is up to the cloud: every poll draws its observation.     *)

VMCreationTimeout == 180
VMStoppingTimeout == 180
DiskCreationTimeout == 180
VMSetMachineTypeTimeout == 180
InstanceTemplateCreationTimeout == 180
VMStatusTerminated == "TERMINATED"
VMStatusRunning == "RUNNING"

\* time.Sleep after a failed or unready poll; an unready disk is polled sooner
PollSleep == 10
DiskNotReadySleep == 5

\* the longest a lookup takes, in seconds
MaxLatency == 1

\* fmt.Sprintf("zones/%s/machineTypes/%s", zone, machineType), the zone being "z"
MachineTypeURIOf(machineType) == <<"z", "/">> \o machineType

\* the machine types asked for, and the ones a VM is seen with
MachineTypes == {<<"a">>, <<"b">>, <<"a", "/", "b">>}
SeenMachineTypes ==
    {MachineTypeURIOf(t) : t \in MachineTypes} \cup {<<"a">>, <<"a", "/", "z">>, <<>>}

\* what a lookup (GetVM, GetDisk, GetInstanceTemplate) returns
NoObs == [err |-> FALSE, status |-> "", machineType |-> <<>>]
LookupFailed == [err |-> TRUE, status |-> "", machineType |-> <<>>]
VMStatuses == {"PROVISIONING", VMStatusRunning, VMStatusTerminated}
DiskStatuses == {"CREATING", "READY", "FAILED"}
Observations(kind) ==
    {LookupFailed} \cup
    CASE kind \in {"VMRunning", "VMStopped"} ->
            {[err |-> FALSE, status |-> st, machineType |-> <<"a">>] : st \in VMStatuses}
      [] kind = "DiskCreation" ->
            {[err |-> FALSE, status |-> st, machineType |-> <<>>] : st \in DiskStatuses}
      [] kind = "VMMachineTypeChanged" ->
            {[err |-> FALSE, status |-> VMStatusTerminated, machineType |-> t] :
                t \in SeenMachineTypes}
      [] OTHER -> {NoObs}

\* the timeout a probe checks at the top of its loop
ProbeTimeout(kind) ==
    CASE kind = "VMRunning" -> VMCreationTimeout
      [] kind = "VMStopped" -> VMStoppingTimeout
      [] kind = "DiskCreation" -> DiskCreationTimeout
      [] kind = "VMMachineTypeChanged" -> VMSetMachineTypeTimeout
      [] OTHER -> InstanceTemplateCreationTimeout

\* time.Now().Sub(startTime) > timeout
TimedOut(kind, elapsed) == elapsed > ProbeTimeout(kind)

\* faulty variants: a probe that takes any settled status for its target
VMNotProvisioningSeen(obs) == obs.status # "PROVISIONING"
DiskNotCreatingSeen(obs) == obs.status # "CREATING"

\* what each probe waits for in a lookup that succeeded
VMRunningSeen(obs) == obs.status = "RUNNING"
VMStoppedSeen(obs) == obs.status = VMStatusTerminated
DiskReadySeen(obs) == obs.status = "READY"
MachineTypeSeen(obs, machineType) == GetLastSplit(obs.machineType, "/") = machineType
TemplateSeen(obs) == TRUE

ProbeSatisfied(kind, obs, target) ==
    CASE kind = "VMRunning" -> VMRunningSeen(obs)
      [] kind = "VMStopped" -> VMStoppedSeen(obs)
      [] kind = "DiskCreation" -> DiskReadySeen(obs)
      [] kind = "VMMachineTypeChanged" -> MachineTypeSeen(obs, target)
      [] OTHER -> TemplateSeen(obs)

\* how long the probe sleeps after a lookup that succeeded but is not at the target
NotReadySleep(kind) == IF kind = "DiskCreation" THEN DiskNotReadySleep ELSE PollSleep

\* sent holds the values the invocation has sent on its observer channel
NoProbe == [kind |-> "none", pc |-> "none", elapsed |-> 0, nap |-> 0, val |-> FALSE,
            seen |-> NoObs, hit |-> FALSE, target |-> <<>>, sent |-> <<>>]

\* go m.Probe...(..., observer): startTime := time.Now()
StartProbe(kind, target) ==
    [NoProbe EXCEPT !.kind = kind, !.pc = "check", !.target = target]

IdleMgr == [op |-> "none", pc |-> "idle", target |-> <<>>, reqOk |-> FALSE,
            vccCalled |-> FALSE, vccOk |-> FALSE, vccErr |-> FALSE,
            opRet |-> FALSE, err |-> "none"]

MgrFree == mgr.pc \in {"idle", "returned"}

\* a call whose request failed returns that error and starts no probe
RequestFailed(op) ==
    /\ mgr' = [IdleMgr EXCEPT !.op = op, !.pc = "returned", !.err = "request error"]
    /\ probe' = NoProbe

\* a call whose request succeeded starts its probe and receives from the observer
AwaitProbe(op, kind, target) ==
    /\ mgr' = [IdleMgr EXCEPT !.op = op, !.pc = "recv", !.reqOk = TRUE, !.target = target]
    /\ probe' = StartProbe(kind, target)

\* Manager.NewVM
NewVM(insertOk) ==
    /\ MgrFree
    /\ IF insertOk THEN AwaitProbe("NewVM", "VMRunning", <<>>) ELSE RequestFailed("NewVM")
    /\ UNCHANGED <<gdsVars, iterVars, utilVars>>

\* Manager.SetMachineType
SetMachineType(machineType, reqOk) ==
    /\ MgrFree
    /\ IF reqOk THEN AwaitProbe("SetMachineType", "VMMachineTypeChanged", machineType)
       ELSE RequestFailed("SetMachineType")
    /\ UNCHANGED <<gdsVars, iterVars, utilVars>>

\* Manager.NewDisk
NewDisk(insertOk) ==
    /\ MgrFree
    /\ IF insertOk THEN AwaitProbe("NewDisk", "DiskCreation", <<>>)
       ELSE RequestFailed("NewDisk")
    /\ UNCHANGED <<gdsVars, iterVars, utilVars>>

\* Manager.NewInstanceTemplate
NewInstanceTemplate(insertOk) ==
    /\ MgrFree
    /\ IF insertOk THEN AwaitProbe("NewInstanceTemplate", "InstanceTemplateCreation", <<>>)
       ELSE RequestFailed("NewInstanceTemplate")
    /\ UNCHANGED <<gdsVars, iterVars, utilVars>>

\* the checkers StartVM and StopVM are tried with: one that returns a given
\* (bool, error), and the one that runs a probe and reports what it sent
FixedCheckers == [kind : {"fixed"}, ok : BOOLEAN, err : BOOLEAN]
ProbeChecker == [kind |-> "probe", ok |-> FALSE, err |-> FALSE]
Checkers == FixedCheckers \cup {ProbeChecker}

\* what StartVM and StopVM return once vcc has returned (ok, err)
AfterVcc(m, ok, err) ==
    [m EXCEPT !.pc = "returned", !.vccCalled = TRUE, !.vccOk = ok, !.vccErr = err,
              !.opRet = ~err,
              !.err = IF err THEN "VM condition checking fails" ELSE "nil"]

\* StartVM and StopVM: the request, then vcc
StartOrStop(op, kind, reqOk, vcc) ==
    /\ MgrFree
    /\ IF ~reqOk
       THEN RequestFailed(op)
       ELSE IF vcc.kind = "probe"
       THEN AwaitProbe(op, kind, <<>>)
       ELSE /\ mgr' = AfterVcc([IdleMgr EXCEPT !.op = op, !.reqOk = TRUE], vcc.ok, vcc.err)
            /\ probe' = NoProbe
    /\ UNCHANGED <<gdsVars, iterVars, utilVars>>

\* Manager.StartVM
StartVM(reqOk, vcc) == StartOrStop("StartVM", "VMRunning", reqOk, vcc)

\* Manager.StopVM
StopVM(reqOk, vcc) == StartOrStop("StopVM", "VMStopped", reqOk, vcc)

\* faulty variant: on a timeout the probe breaks out of the loop without a send
ProbeCheckSilent(kind) ==
    /\ probe.kind = kind
    /\ probe.pc = "check"
    /\ probe' = IF TimedOut(kind, probe.elapsed)
                THEN [probe EXCEPT !.pc = "exit"]
                ELSE [probe EXCEPT !.pc = "poll"]
    /\ UNCHANGED <<mgr, gdsVars, iterVars, utilVars>>

\* the top of a probe's loop: the timeout check
ProbeCheck(kind) ==
    /\ probe.kind = kind
    /\ probe.pc = "check"
    /\ probe' = IF TimedOut(kind, probe.elapsed)
                THEN [probe EXCEPT !.pc = "send", !.val = FALSE]
                ELSE [probe EXCEPT !.pc = "poll"]
    /\ UNCHANGED <<mgr, gdsVars, iterVars, utilVars>>

\* faulty variant: a lookup that fails makes the probe give up and send false
ProbePollGivesUp(kind, obs, d) ==
    /\ probe.kind = kind
    /\ probe.pc = "poll"
    /\ probe' =
        IF obs.err
        THEN [probe EXCEPT !.pc = "send", !.elapsed = @ + d, !.seen = obs, !.val = FALSE]
        ELSE IF ~ProbeSatisfied(kind, obs, probe.target)
        THEN [probe EXCEPT !.pc = "sleep", !.elapsed = @ + d, !.seen = obs,
                           !.nap = NotReadySleep(kind)]
        ELSE [probe EXCEPT !.pc = "send", !.elapsed = @ + d, !.seen = obs,
                           !.hit = TRUE, !.val = TRUE]
    /\ UNCHANGED <<mgr, gdsVars, iterVars, utilVars>>

\* the lookup, which takes d seconds and returns obs
ProbePoll(kind, obs, d) ==
    /\ probe.kind = kind
    /\ probe.pc = "poll"
    /\ probe' =
        IF obs.err
        THEN [probe EXCEPT !.pc = "sleep", !.elapsed = @ + d, !.seen = obs,
                           !.nap = PollSleep]
        ELSE IF ~ProbeSatisfied(kind, obs, probe.target)
        THEN [probe EXCEPT !.pc = "sleep", !.elapsed = @ + d, !.seen = obs,
                           !.nap = NotReadySleep(kind)]
        ELSE [probe EXCEPT !.pc = "send", !.elapsed = @ + d, !.seen = obs,
                           !.hit = TRUE, !.val = TRUE]
    /\ UNCHANGED <<mgr, gdsVars, iterVars, utilVars>>

\* time.Sleep, then the loop continues
ProbeSleep(kind) ==
    /\ probe.kind = kind
    /\ probe.pc = "sleep"
    /\ probe' = [probe EXCEPT !.pc = "check", !.elapsed = @ + probe.nap, !.nap = 0]
    /\ UNCHANGED <<mgr, gdsVars, iterVars, utilVars>>

ProbeLoop(kind) ==
    \/ ProbeCheck(kind)
    \/ \E obs \in Observations(kind), d \in 0..MaxLatency : ProbePoll(kind, obs, d)
    \/ ProbeSleep(kind)

ProbeVMRunning == ProbeLoop("VMRunning")
ProbeVMStopped == ProbeLoop("VMStopped")
ProbeDiskCreation == ProbeLoop("DiskCreation")
ProbeVMMachineTypeChanged == ProbeLoop("VMMachineTypeChanged")
ProbeInstanceTemplateCreation == ProbeLoop("InstanceTemplateCreation")

\* what a waiting call returns for the value it received
AfterProbe(m, done) ==
    IF m.op \in {"StartVM", "StopVM"}
    THEN AfterVcc(m, done, ~done)
    ELSE [m EXCEPT !.pc = "returned", !.err = IF done THEN "nil" ELSE "timeout"]

\* faulty variant: no break after the send, the loop goes on
AfterSendLoops(p) == [p EXCEPT !.pc = "check", !.sent = Append(@, p.val)]

\* the probe once its send went through: break, and the function returns
AfterSend(p) == [p EXCEPT !.pc = "exit", !.sent = Append(@, p.val)]

\* observer <- val meets done := <-observer (the channel is unbuffered); the
\* probe breaks out of its loop and the call returns
Deliver ==
    /\ probe.pc = "send"
    /\ mgr.pc = "recv"
    /\ mgr' = AfterProbe(mgr, probe.val)
    /\ probe' = AfterSend(probe)
    /\ UNCHANGED <<gdsVars, iterVars, utilVars>>

-----------------------------------------------------------------------------
(* Helpers and thin wrappers.  Each action is one whole call; util records  *)
(* its arguments (args), what it returned (ret) and its error (err).        *)
(* Strings are sequences of characters.                                     *)

NoUtil == [op |-> "none", args |-> <<>>, ret |-> <<>>, err |-> "nil"]

\* the byte of a character, which Go compares strings by
Byte(c) == IF c = "/" THEN 47 ELSE IF c = "a" THEN 97 ELSE IF c = "b" THEN 98 ELSE 122

\* s < t on strings: bytewise, a proper prefix coming first
StrLess(s, t) ==
    \E i \in 1..Len(t) :
        /\ \A j \in 1..(i - 1) : j <= Len(s) /\ s[j] = t[j]
        /\ (i > Len(s) \/ Byte(s[i]) < Byte(t[i]))

\* strings.Contains(s, substr)
Contains(s, substr) ==
    \E i \in 1..(Len(s) - Len(substr) + 1) : SubSeq(s, i, i + Len(substr) - 1) = substr

\* the snapshot lists GetLatestSnapshot is tried with: a snapshot is its place in
\* the list, snapshots[i] is its name
MaxSnapshots == 3
SnapshotNames == {<<"a">>, <<"b">>, <<"a", "b">>}
SnapshotLists == UNION {[1..n -> SnapshotNames] : n \in 0..MaxSnapshots}
SnapshotPrefixes == {<<>>, <<"a">>, <<"b">>, <<"z">>}

\* BySnapshotName.Less
BySnapshotNameLess(a, i, j) == StrLess(a[i], a[j])

\* the snapshots whose name contains prefix, in the order of the list
RECURSIVE Filtered(_, _, _)
Filtered(snapshots, prefix, i) ==
    IF i > Len(snapshots) THEN <<>>
    ELSE (IF Contains(snapshots[i], prefix) THEN <<i>> ELSE <<>>)
            \o Filtered(snapshots, prefix, i + 1)

\* what sort.Sort(BySnapshotName(filtered)) can leave: the elements of filtered
\* in an order in which none is less than one before it (the sort is not
\* stable, equal names can end in either order)
SortOutcomes(snapshots, filtered) ==
    {o \in [1..Len(filtered) -> {filtered[k] : k \in 1..Len(filtered)}] :
        /\ \A k, l \in 1..Len(filtered) : o[k] = o[l] => k = l
        /\ \A k, l \in 1..Len(filtered) : k < l => ~BySnapshotNameLess(snapshots, o[l], o[k])}

\* faulty variant: the first of the sorted snapshots
FirstOf(sorted) == sorted[1]

\* filteredSnapshots[len(filteredSnapshots)-1]
LastOf(sorted) == sorted[Len(sorted)]

\* Manager.GetLatestSnapshot; ret is the place of the returned snapshot in the
\* list, 0 for a nil snapshot
GetLatestSnapshot(prefix, snapshots, sorted) ==
    LET filtered == Filtered(snapshots, prefix, 1) IN
    /\ sorted \in SortOutcomes(snapshots, filtered)
    /\ util' = [op |-> "GetLatestSnapshot", args |-> <<prefix, snapshots>>,
                ret |-> IF Len(filtered) < 1 THEN 0 ELSE LastOf(sorted),
                err |-> IF Len(filtered) < 1 THEN "No snapshot found" ELSE "nil"]
    /\ UNCHANGED <<gdsVars, iterVars, gceVars, vmTags>>

\* tags, the tag lists AttachTags and DetachTags are called with, and the longest
\* tag list the VM is let grow to
Tags == {"tag1", "tag2", "tag3"}
MaxTagArgs == 2
MaxTags == 3
TagLists == UNION {[1..n -> Tags] : n \in 0..MaxTagArgs}

\* gosak.InStringSlice(slice, s)
InStringSlice(slice, s) == \E i \in 1..Len(slice) : slice[i] = s

\* attacher: src with every element of new appended
RECURSIVE attacher(_, _)
attacher(src, new) ==
    IF new = <<>> THEN src ELSE attacher(Append(src, Head(new)), Tail(new))

\* faulty variant: the first removed tag is dropped, each once
RECURSIVE detachFirstOnly(_, _)
detachFirstOnly(src, remove) ==
    IF src = <<>> \/ remove = <<>> THEN src
    ELSE IF Head(src) = Head(remove) THEN Tail(src)
    ELSE <<Head(src)>> \o detachFirstOnly(Tail(src), remove)

\* detacher: the elements of src that are not in remove, in their order
RECURSIVE detacher(_, _)
detacher(src, remove) ==
    IF src = <<>> THEN <<>>
    ELSE (IF InStringSlice(remove, Head(src)) THEN <<>> ELSE <<Head(src)>>)
            \o detacher(Tail(src), remove)

\* Manager.setTags: the VM is looked up, its tag list replaced by newTags and
\* sent back; either call can fail, and then nothing is set.  args holds the
\* tags argument and the VM's tag list before the call, ret whether an
\* operation is returned.
setTags(op, tags, newTags, getOk, setOk) ==
    /\ Len(newTags) <= MaxTags
    /\ vmTags' = IF getOk /\ setOk THEN newTags ELSE vmTags
    /\ util' = [op |-> op, args |-> <<tags, vmTags>>, ret |-> getOk /\ setOk,
                err |-> IF ~getOk THEN "GetVM error"
                        ELSE IF ~setOk THEN "SetTags error" ELSE "nil"]
    /\ UNCHANGED <<gdsVars, iterVars, gceVars>>

\* Manager.AttachTags
AttachTags(addedTags, getOk, setOk) ==
    setTags("AttachTags", addedTags, attacher(vmTags, addedTags), getOk, setOk)

\* Manager.DetachTags
DetachTags(removedTages, getOk, setOk) ==
    setTags("DetachTags", removedTages, detacher(vmTags, removedTages), getOk, setOk)

\* the machine type URIs and target types PatchInstanceMachineType is tried with
MaxURILen == 4
URIs == UNION {[1..n -> {"a", "/"}] : n \in 0..MaxURILen}
TargetTypes == {<<>>, <<"b">>, <<"a">>, <<"b", "/", "b">>}

\* strings.Join(parts, sep) for a one-character separator
RECURSIVE Join(_, _)
Join(parts, sep) ==
    IF Len(parts) = 0 THEN <<>>
    ELSE IF Len(parts) = 1 THEN parts[1]
    ELSE parts[1] \o <<sep>> \o Join(Tail(parts), sep)

\* faulty variant: the first part is replaced
SetFirst(split, targetType) == [split EXCEPT ![1] = targetType]

\* split[len(split)-1] = targetType
SetLast(split, targetType) == [split EXCEPT ![Len(split)] = targetType]

\* Manager.PatchInstanceMachineType
PatchInstanceMachineType(machineTypeURI, targetType) ==
    /\ util' = [op |-> "PatchInstanceMachineType", args |-> <<machineTypeURI, targetType>>,
                ret |-> Join(SetLast(Split(machineTypeURI, "/"), targetType), "/"),
                err |-> "nil"]
    /\ UNCHANGED <<gdsVars, iterVars, gceVars, vmTags>>

\* Manager.GetSnapshotOfDisk, of a disk with this SourceSnapshot
GetSnapshotOfDisk(sourceSnapshot) ==
    LET arr == Split(sourceSnapshot, "/") IN arr[Len(arr)]

\* replicapoolupdater.RpuManager.  What the API call (...).Do() returns is up to
\* the service: a result (1..MaxRpuResults) with a nil error, or a nil result
\* (0) with one of its errors.
MaxRpuResults == 3
RpuErrors == {"notFound", "forbidden", "timeout"}
ApiReturns == {<<res, "nil">> : res \in 1..MaxRpuResults} \cup {<<0, e>> : e \in RpuErrors}
ProjectIDs == {"p1", "p2"}
Zones == {"z1", "z2"}
RollingUpdates == {"u1", "u2"}

errRollingUpdate == "RollingUpdate Error"

\* faulty variant: the error of the API call is handed on
RpuHandsOn(api) == api

\* what a method returns for what its API call returned
RpuReturn(api) == IF api[2] # "nil" THEN <<0, errRollingUpdate>> ELSE <<api[1], "nil">>

\* a method of RpuManager: args holds its arguments and, last, what the API
\* call returned
RpuCall(op, args, api) ==
    /\ util' = [op |-> op, args |-> Append(args, api),
                ret |-> RpuReturn(api)[1], err |-> RpuReturn(api)[2]]
    /\ UNCHANGED <<gdsVars, iterVars, gceVars, vmTags>>

\* RpuManager.Insert
Insert(projectID, zone, rollingUpdate, api) ==
    RpuCall("Insert", <<projectID, zone, rollingUpdate>>, api)

\* RpuManager.List
List(projectID, zone, api) == RpuCall("List", <<projectID, zone>>, api)

\* RpuManager.Rollback
Rollback(projectID, zone, rollingUpdateID, api) ==
    RpuCall("Rollback", <<projectID, zone, rollingUpdateID>>, api)

\* utility.CheckIPInRange.  An address string is the sequence of its dotted
\* decimal fields; a net.IP is a sequence of bytes, 4 or 16 of them.
MaxOctet == 1
Octets == 0..MaxOctet
IPv4s == {<<a, 0, 0, d>> : a \in Octets, d \in Octets}
IPStrings == IPv4s \cup {<<>>, <<1, 0, 0>>, <<256, 0, 0, 1>>}

\* the 16-byte form of an IPv4 address (net.IPv4) and its 4-byte form
v4InV6Prefix == <<0, 0, 0, 0, 0, 0, 0, 0, 0, 0, 255, 255>>
IPv4(addr) == v4InV6Prefix \o addr
NetIPs == IPv4s \cup {IPv4(addr) : addr \in IPv4s}

\* net.ParseIP for dotted decimal: four fields of 0..255 give the 16-byte form,
\* anything else nil (the empty sequence)
ParseIP(s) ==
    IF Len(s) = 4 /\ \A i \in 1..4 : s[i] \in 0..255 THEN IPv4(s) ELSE <<>>

\* IP.To4: the 4-byte form of an IPv4 address in either form, nil otherwise
To4(ip) ==
    IF Len(ip) = 4 THEN ip
    ELSE IF Len(ip) = 16 /\ SubSeq(ip, 1, 12) = v4InV6Prefix THEN SubSeq(ip, 13, 16)
    ELSE <<>>

\* bytes.Compare(a, b): -1, 0 or 1 by the first byte that differs, a proper
\* prefix being less
BytesCompare(a, b) ==
    LET diff == {i \in 1..Len(a) : i > Len(b) \/ a[i] # b[i]} IN
    IF diff = {}
    THEN (IF Len(a) = Len(b) THEN 0 ELSE -1)
    ELSE LET i == CHOOSE i \in diff : \A j \in diff : i <= j
         IN  IF i > Len(b) THEN 1 ELSE IF a[i] < b[i] THEN -1 ELSE 1

\* utility.CheckIPInRange
CheckIPInRange(ip, start, end) ==
    LET input == ParseIP(ip) IN
    /\ util' = [op |-> "CheckIPInRange", args |-> <<ip, start, end>>,
                ret |-> IF To4(input) = <<>> THEN FALSE
                        ELSE BytesCompare(input, start) >= 0 /\ BytesCompare(input, end) <= 0,
                err |-> "nil"]
    /\ UNCHANGED <<gdsVars, iterVars, gceVars, vmTags>>

-----------------------------------------------------------------------------
(* The specifications: one per part of the program, each leaving the other  *)
(* parts at rest.                                                           *)

GdsInit ==
    /\ store = EmptyStore
    /\ pu = [p \in Procs |-> IdlePu]
    /\ call = NoCall
    /\ deleted = {}
IterInit ==
    /\ iter = IdleIter
    /\ batch = IdleBatch
    /\ calls = NoCalls
GceInit ==
    /\ mgr = IdleMgr
    /\ probe = NoProbe

UtilInit ==
    /\ vmTags = <<>>
    /\ util = NoUtil

\* the sequential datastore calls
InitGds == GdsInit /\ IterInit /\ total = 0 /\ GceInit /\ UtilInit
NextGds ==
    \/ \E key \in CompleteKeys \cup {NilKey}, entity \in PutStructs, rpc \in RpcOutcomes :
            Put(key, entity, rpc)
    \/ \E key \in AllKeys, dst \in GetStructs, rpc \in RpcOutcomes : Get(key, dst, rpc)
    \/ \E key \in AllKeys, rpc \in RpcOutcomes : Delete(key, rpc)
    \/ \E kindName \in Kinds, rpc \in RpcOutcomes :
        \E fails \in SUBSET KeysOfKind(store, kindName) : DeleteAll(kindName, rpc, fails)
    \/ \E kindName \in Kinds, min \in GetAllMins, result \in GetAllResults, rpc \in RpcOutcomes :
        \E keys \in Orders(Matching(store, kindName, min)) :
            GetAll(kindName, min, result, keys, rpc)
SpecGds == InitGds /\ [][NextGds]_vars

\* concurrent PutUnique callers
InitTx == GdsInit /\ IterInit /\ total = 0 /\ GceInit /\ UtilInit
NextTx ==
    \/ \E p \in Procs, key \in TxKeys, entity \in TxStructs, txOk \in BOOLEAN :
            PutUniqueCall(p, key, entity, txOk)
    \/ \E p \in Procs, rpc \in RpcOutcomes, registered \in BOOLEAN :
            PutUniqueGet(p, rpc, registered)
    \/ \E p \in Procs : PutUniquePut(p)
    \/ \E p \in Procs, rpc \in RpcOutcomes : PutUniqueCommit(p, rpc)
SpecTx == InitTx /\ [][NextTx]_vars

\* Iterate and BatchIterate over a result set that does not change
InitIter == GdsInit /\ IterInit /\ total \in 0..MaxEntities /\ GceInit /\ UtilInit
NextIter ==
    \/ \E cursorStr \in IterCursorStrs, limit \in IterLimits : IterateCall(cursorStr, limit)
    \/ \E rpc \in RpcOutcomes : IterateNext(rpc)
    \/ IterateSpawn
    \/ \E j \in Slots : OpStart(j)
    \/ \E j \in Slots : OpFinish(j)
    \/ IterateWait
    \/ \E ok \in BOOLEAN, bare \in BOOLEAN : IterateCursor(ok, bare)
    \/ \E batchSize \in -1..MaxBatch : BatchIterateCall(batchSize)
    \/ BatchIterateLoop
    \/ BatchIterateStep
SpecIter == InitIter /\ [][NextIter]_vars

\* the gce calls and their probes
InitGce == GdsInit /\ IterInit /\ total = 0 /\ GceInit /\ UtilInit
NextGce ==
    \/ \E insertOk \in BOOLEAN : NewVM(insertOk)
    \/ \E machineType \in MachineTypes, reqOk \in BOOLEAN : SetMachineType(machineType, reqOk)
    \/ \E insertOk \in BOOLEAN : NewDisk(insertOk)
    \/ \E insertOk \in BOOLEAN : NewInstanceTemplate(insertOk)
    \/ \E reqOk \in BOOLEAN, vcc \in Checkers : StartVM(reqOk, vcc)
    \/ \E reqOk \in BOOLEAN, vcc \in Checkers : StopVM(reqOk, vcc)
    \/ ProbeVMRunning
    \/ ProbeVMStopped
    \/ ProbeDiskCreation
    \/ ProbeVMMachineTypeChanged
    \/ ProbeInstanceTemplateCreation
    \/ Deliver
SpecGce == InitGce /\ [][NextGce]_vars

\* the same with the probe goroutine scheduled: a lookup returns, a sleep ends,
\* and a send the caller waits for goes through
ProbeRuns ==
    \/ ProbeVMRunning \/ ProbeVMStopped \/ ProbeDiskCreation
    \/ ProbeVMMachineTypeChanged \/ ProbeInstanceTemplateCreation \/ Deliver
SpecGceLive == SpecGce /\ WF_vars(ProbeRuns)

\* Delete among the calls that store: Put, and a PutUnique caller that runs beside
\* the sequential calls, on keys that are never nil (no call here can panic)
DelKeys == {BuildKey("A", "n1"), BuildKey("A", "n2")}
DelStructs == [Key : {NilKey}, type : {"Article"}, n : {1}]
DelProcs == {1}
InitDel == GdsInit /\ IterInit /\ total = 0 /\ GceInit /\ UtilInit
NextDel ==
    \/ \E key \in DelKeys, entity \in DelStructs, rpc \in RpcOutcomes : Put(key, entity, rpc)
    \/ \E key \in DelKeys, rpc \in RpcOutcomes : Get(key, ZeroStruct, rpc)
    \/ \E key \in DelKeys, rpc \in RpcOutcomes : Delete(key, rpc)
    \/ \E p \in DelProcs, key \in DelKeys, entity \in DelStructs : PutUniqueCall(p, key, entity, TRUE)
    \/ \E p \in DelProcs, rpc \in RpcOutcomes, registered \in BOOLEAN :
            PutUniqueGet(p, rpc, registered)
    \/ \E p \in DelProcs : PutUniquePut(p)
    \/ \E p \in DelProcs, rpc \in RpcOutcomes : PutUniqueCommit(p, rpc)
SpecDel == InitDel /\ [][NextDel]_vars

\* GetLatestSnapshot
InitSnap == GdsInit /\ IterInit /\ total = 0 /\ GceInit /\ UtilInit
NextSnap ==
    \/ \E prefix \in SnapshotPrefixes, snapshots \in SnapshotLists :
        \E sorted \in SortOutcomes(snapshots, Filtered(snapshots, prefix, 1)) :
            GetLatestSnapshot(prefix, snapshots, sorted)
SpecSnap == InitSnap /\ [][NextSnap]_vars

\* AttachTags and DetachTags
InitTags == GdsInit /\ IterInit /\ total = 0 /\ GceInit /\ UtilInit
NextTags ==
    \/ \E addedTags \in TagLists, getOk \in BOOLEAN, setOk \in BOOLEAN :
            AttachTags(addedTags, getOk, setOk)
    \/ \E removedTages \in TagLists, getOk \in BOOLEAN, setOk \in BOOLEAN :
            DetachTags(removedTages, getOk, setOk)
SpecTags == InitTags /\ [][NextTags]_vars

\* PatchInstanceMachineType
InitPatch == GdsInit /\ IterInit /\ total = 0 /\ GceInit /\ UtilInit
NextPatch ==
    \E machineTypeURI \in URIs, targetType \in TargetTypes :
        PatchInstanceMachineType(machineTypeURI, targetType)
SpecPatch == InitPatch /\ [][NextPatch]_vars

\* the rolling-update manager
InitRpu == GdsInit /\ IterInit /\ total = 0 /\ GceInit /\ UtilInit
NextRpu ==
    \/ \E projectID \in ProjectIDs, zone \in Zones, rollingUpdate \in RollingUpdates,
          api \in ApiReturns : Insert(projectID, zone, rollingUpdate, api)
    \/ \E projectID \in ProjectIDs, zone \in Zones, api \in ApiReturns :
            List(projectID, zone, api)
    \/ \E projectID \in ProjectIDs, zone \in Zones, rollingUpdateID \in RollingUpdates,
          api \in ApiReturns : Rollback(projectID, zone, rollingUpdateID, api)
SpecRpu == InitRpu /\ [][NextRpu]_vars

\* CheckIPInRange
InitIP == GdsInit /\ IterInit /\ total = 0 /\ GceInit /\ UtilInit
NextIP ==
    \E ip \in IPStrings, start \in NetIPs, end \in NetIPs : CheckIPInRange(ip, start, end)
SpecIP == InitIP /\ [][NextIP]_vars

\* the whole program
Init == InitIter
Next ==
    \/ NextGds \/ NextTx \/ NextIter \/ NextGce
    \/ NextSnap \/ NextTags \/ NextPatch \/ NextRpu \/ NextIP
Spec == Init /\ [][Next]_vars

-----------------------------------------------------------------------------
(* The claims.                                                              *)

\* C1: PutUnique never overwrites an existing entity: a call for a key under
\* which an entity is stored when it is made returns a non-nil error, and the
\* entity stored under the key when it returns is the one stored before.
C1_PutUniqueKeepsExisting ==
    \A p \in Procs :
        (pu[p].pc = "done" /\ pu[p].before # NoEntity)
            => (pu[p].err # "nil" /\ pu[p].after = pu[p].before)

\* C2: of two PutUnique calls for the same key, both made while nothing is
\* stored under it (so they run concurrently), at most one returns nil.
C2_AtMostOneWins ==
    \A p, q \in Procs :
        (/\ p # q
         /\ pu[p].pc = "done" /\ pu[q].pc = "done"
         /\ pu[p].key = pu[q].key
         /\ pu[p].before = NoEntity /\ pu[q].before = NoEntity)
            => ~(pu[p].err = "nil" /\ pu[q].err = "nil")

\* the entities a query yields from the position of the cursor string given to
\* Iterate, under its limit
YieldedFrom(cursorStr, limit) ==
    LET from == IF cursorStr.k = "cursor" THEN cursorStr.pos ELSE 0 IN
    {e \in Slots : from < e /\ e <= total /\ (limit < 0 \/ e <= from + limit)}

\* C3: when Iterate returns without error, op has been invoked exactly once
\* with each entity the query yielded from the given cursor (its key and its
\* data), with nothing else, and no op goroutine is still to run or running.
C3_IterateOncePerEntityAllFinished ==
    (iter.pc = "returned" /\ iter.err = "nil") =>
        /\ \A k, d \in Slots :
                iter.inv[<<k, d>>] =
                    IF k = d /\ k \in YieldedFrom(iter.cursorStr, iter.limit) THEN 1 ELSE 0
        /\ \A j \in Slots : iter.g[j].st \in {"none", "finished"}

\* C3's case: an Iterate from a cursor inside the result set returned without
\* error after yielding two entities
C3_Witness ==
    /\ iter.pc = "returned" /\ iter.err = "nil" /\ iter.owner = "Iterate"
    /\ iter.cursorStr = CursorString(1)
    /\ Cardinality(YieldedFrom(iter.cursorStr, iter.limit)) = 2

\* C4: a BatchIterate with batchSize >= 1 that returned nil has invoked op
\* exactly once with every entity matching the query, and no Iterate call it
\* made processed more than batchSize entities.
C4_BatchIterateOncePerEntity ==
    /\ (batch.pc = "returned" /\ batch.err = "nil" /\ batch.batchSize >= 1) =>
            \A e \in Slots : calls[e] = IF e <= total THEN 1 ELSE 0
    /\ (batch.pc = "iterating" /\ iter.pc = "returned" /\ batch.batchSize >= 1) =>
            /\ Len(iter.entityArr) <= batch.batchSize
            /\ Cardinality({pr \in Slots \X Slots : iter.inv[pr] > 0}) <= batch.batchSize

\* C4's case: three entities went through a returned BatchIterate in pages of two
C4_Witness ==
    /\ batch.pc = "returned" /\ batch.err = "nil"
    /\ batch.batchSize = 2 /\ total = 3 /\ batch.count = 4

\* a call that waits for a probe returned nil only on a lookup that succeeded
\* and met the probe's target, and a timeout error only on a timeout check
\* that found more than timeout seconds elapsed, no lookup having met the target
WaitedFor(op, timeout) ==
    (mgr.op = op /\ mgr.pc = "returned") =>
        /\ mgr.err = "nil" => (mgr.reqOk /\ probe.hit /\ ~probe.seen.err)
        /\ (mgr.reqOk /\ ~probe.hit) => (mgr.err = "timeout" /\ probe.elapsed > timeout)
        /\ mgr.err = "timeout" => (mgr.reqOk /\ ~probe.hit /\ probe.elapsed > timeout)

\* C5: NewVM returns nil only if a poll made after the insert observed the VM
\* with status RUNNING, and when it returns with no such observation made it
\* returns a timeout error, more than VMCreationTimeout having elapsed.
C5_NewVMRunningOrTimeout ==
    /\ WaitedFor("NewVM", VMCreationTimeout)
    /\ (mgr.op = "NewVM" /\ mgr.pc = "returned" /\ mgr.err = "nil") =>
            probe.seen.status = "RUNNING"

\* C5's case: NewVM returned nil after polls that found the VM not yet running
C5_Witness ==
    /\ mgr.op = "NewVM" /\ mgr.pc = "returned" /\ mgr.err = "nil"
    /\ probe.elapsed >= 2 * PollSleep

\* C6: StartVM and StopVM return a non-nil operation with a nil error only if
\* vcc was called and returned true.
C6_CheckerDecides ==
    (mgr.op \in {"StartVM", "StopVM"} /\ mgr.pc = "returned"
        /\ mgr.opRet /\ mgr.err = "nil")
            => (mgr.vccCalled /\ mgr.vccOk)

\* seg holds no "/" and s is seg or ends with "/" and seg
IsLastSegment(s, seg) ==
    /\ \A i \in 1..Len(seg) : seg[i] # "/"
    /\ Len(s) >= Len(seg)
    /\ SubSeq(s, Len(s) - Len(seg) + 1, Len(s)) = seg
    /\ (Len(s) = Len(seg) \/ s[Len(s) - Len(seg)] = "/")

\* C7: SetMachineType returns nil only if, after the request succeeded, a poll
\* observed a machine type whose last "/"-separated segment is the requested
\* machineType; it returns a timeout error when the timeout check found more
\* than VMSetMachineTypeTimeout elapsed first.
C7_SetMachineTypeSeenOrTimeout ==
    /\ WaitedFor("SetMachineType", VMSetMachineTypeTimeout)
    /\ (mgr.op = "SetMachineType" /\ mgr.pc = "returned" /\ mgr.err = "nil") =>
            IsLastSegment(probe.seen.machineType, mgr.target)

\* C7's case: SetMachineType returned nil on a machine type URI with several
\* segments, after a poll that saw another machine type
C7_Witness ==
    /\ mgr.op = "SetMachineType" /\ mgr.pc = "returned" /\ mgr.err = "nil"
    /\ Len(probe.seen.machineType) > Len(mgr.target)
    /\ probe.elapsed >= PollSleep

\* C8: NewDisk returns nil only if a poll made after the insert observed the
\* disk with status READY, NewInstanceTemplate only if a lookup of the template
\* made after the insert succeeded; each returns a timeout error when the
\* timeout check found more than 180 seconds elapsed first.
C8_DiskAndTemplateSeenOrTimeout ==
    /\ WaitedFor("NewDisk", 180)
    /\ WaitedFor("NewInstanceTemplate", 180)
    /\ (mgr.op = "NewDisk" /\ mgr.pc = "returned" /\ mgr.err = "nil") =>
            probe.seen.status = "READY"

\* C8's case: NewDisk returned nil after a poll that found the disk not ready
\* and one that failed
C8_Witness ==
    /\ mgr.op = "NewDisk" /\ mgr.pc = "returned" /\ mgr.err = "nil"
    /\ probe.elapsed >= PollSleep + DiskNotReadySleep
    /\ probe.elapsed < 2 * PollSleep

\* C9: Get for a non-nil key with no stored entity returns a non-nil error and
\* leaves the destination as it was, its Key field included.
C9_GetMissingLeavesDst ==
    (call.op = "Get" /\ ~call.key.nil /\ ~Stored(call.pre, call.key)) =>
        (call.err # "nil" /\ call.dst1 = call.dst0)

\* C9's case: a Get of a complete key with nothing stored under it, other
\* entities being stored, into a destination that holds another key
C9_Witness ==
    /\ call.op = "Get" /\ call.key \in CompleteKeys /\ ~Stored(call.pre, call.key)
    /\ call.err = "ErrNoSuchEntity"
    /\ call.dst0.Key # NilKey /\ call.dst0.Key # call.key /\ call.dst0.n # 0
    /\ \E k \in CompleteKeys : Stored(store, k)

C11_GetFailsAfterDelete ==
    [][ (call' # call /\ call'.op = "Get" /\ call'.key \in deleted)
            => call'.err # "nil" ]_vars

\* C11's case: a PutUnique stored an entity under the key, a Delete of the key
\* returned nil, and the Get that followed found nothing, while the other key
\* is stored
C11_Witness ==
    /\ call.op = "Get" /\ call.key \in deleted /\ call.err = "ErrNoSuchEntity"
    /\ \E p \in Procs : pu[p].pc = "done" /\ pu[p].err = "nil" /\ pu[p].key = call.key
    /\ \E k \in CompleteKeys : Stored(store, k)

\* C12: whenever DeleteAll(kind) returns nil, no other writer running, no entity
\* of that kind remains stored and the entities of other kinds are unchanged.
C12_DeleteAllEmptiesKind ==
    (call.op = "DeleteAll" /\ call.err = "nil") =>
        \A k \in CompleteKeys :
            IF k.kind = call.key.kind THEN store[k] = NoEntity ELSE store[k] = call.pre[k]

\* C13: a GetAll given an empty result slice that returns without error returns
\* as many keys as the slice has entities, and for every index i the Key field
\* of the i-th entity is the i-th returned key, under which that entity is
\* stored.
C13_GetAllKeysCorrespond ==
    (call.op = "GetAll" /\ call.dst0 = <<>> /\ call.err = "nil") =>
        /\ Len(call.dst1) = Len(call.ret)
        /\ \A i \in 1..Len(call.dst1) :
                /\ call.dst1[i].Key = call.ret[i]
                /\ Stored(call.pre, call.ret[i])
                /\ call.pre[call.ret[i]].n = call.dst1[i].n

\* C13's case: a GetAll into an empty slice returned two entities with
\* different data
C13_Witness ==
    /\ call.op = "GetAll" /\ call.dst0 = <<>> /\ call.err = "nil"
    /\ Len(call.dst1) = 2 /\ call.dst1[1].n # call.dst1[2].n

\* C14: a Put that succeeds returns the key the entity is now stored under and
\* sets the entity's Key field to it; a Put that fails, as one with a nil key
\* does, returns a nil key and a non-nil error and leaves the store and the
\* entity, its Key field included, as they were.
C14_PutSetsKeyOnSuccessOnly ==
    call.op = "Put" =>
        /\ call.key.nil => call.err # "nil"
        /\ IF call.err = "nil"
           THEN /\ call.ret = call.key /\ ~call.ret.nil
                /\ call.dst1 = [call.dst0 EXCEPT !.Key = call.ret]
                /\ store = [call.pre EXCEPT ![call.ret] =
                                [type |-> call.dst0.type, n |-> call.dst0.n]]
           ELSE /\ call.ret = NilKey
                /\ store = call.pre
                /\ call.dst1 = call.dst0

\* C14's case: a Put with a nil key failed on an entity that held a key, other
\* data being stored
C14_Witness ==
    /\ call.op = "Put" /\ call.key.nil /\ call.err = "ErrInvalidKey"
    /\ call.dst0.Key # NilKey
    /\ \E k \in CompleteKeys : Stored(store, k) /\ store[k].n # call.dst0.n

\* C15: GetLatestSnapshot returns, among the given snapshots whose name contains
\* the prefix, one whose name no other such name exceeds, whatever the order of
\* the list; with no such snapshot it returns an error and a nil snapshot.
C15_LatestSnapshotIsGreatest ==
    util.op = "GetLatestSnapshot" =>
        LET prefix == util.args[1]
            snapshots == util.args[2]
            matching == {i \in 1..Len(snapshots) : Contains(snapshots[i], prefix)}
        IN  IF matching = {}
            THEN util.err # "nil" /\ util.ret = 0
            ELSE /\ util.err = "nil"
                 /\ util.ret \in matching
                 /\ \A j \in matching : ~StrLess(snapshots[util.ret], snapshots[j])

\* C15's case: of three snapshots the first has the greatest name among the two
\* that contain the prefix, and a greater name does not contain it
C15_Witness ==
    /\ util.op = "GetLatestSnapshot" /\ util.err = "nil" /\ util.ret = 1
    /\ Len(util.args[2]) = 3
    /\ \E j \in 2..3 : /\ Contains(util.args[2][j], util.args[1])
                        /\ StrLess(util.args[2][j], util.args[2][1])
    /\ \E j \in 2..3 : /\ ~Contains(util.args[2][j], util.args[1])
                        /\ StrLess(util.args[2][1], util.args[2][j])

\* C16: an AttachTags that succeeds sets the VM's tags to the tags it had
\* followed by the added tags; a DetachTags that succeeds sets them to the tags
\* it had with every occurrence of each removed tag dropped and the order of
\* the rest kept; and attaching a list of tags the VM does not have and then
\* detaching the same list leaves the VM with the tag list it had at first.
C16_AttachThenDetachRestores ==
    /\ []((util.op = "AttachTags" /\ util.err = "nil") =>
                vmTags = util.args[2] \o util.args[1])
    /\ []((util.op = "DetachTags" /\ util.err = "nil") =>
                vmTags = SelectSeq(util.args[2],
                                   LAMBDA s : \A i \in 1..Len(util.args[1]) :
                                                    util.args[1][i] # s))
    /\ [][ (/\ util.op = "AttachTags" /\ util.err = "nil"
            /\ \A i \in 1..Len(util.args[1]) : \A j \in 1..Len(util.args[2]) :
                    util.args[1][i] # util.args[2][j]
            /\ util'.op = "DetachTags" /\ util'.err = "nil"
            /\ util'.args[1] = util.args[1])
                => vmTags' = util.args[2] ]_vars

\* C16's case: from a VM with a tag, a list of two other tags, the same tag
\* twice or two different ones, was attached and then detached
C16_Witness ==
    /\ util.op = "DetachTags" /\ util.err = "nil"
    /\ Len(util.args[1]) = 2 /\ Len(util.args[2]) = 3 /\ Len(vmTags) = 1
    /\ util.args[2] = vmTags \o util.args[1]
    /\ ~InStringSlice(util.args[1], vmTags[1])

\* C17: PatchInstanceMachineType returns machineTypeURI with what follows its
\* last "/" (the whole of it when it has none) replaced by targetType, all
\* before left as it was; and for a targetType without "/" the last segment of
\* the result, as GetLastSplit and as GetSnapshotOfDisk compute it, is targetType.
C17_PatchReplacesLastSegment ==
    util.op = "PatchInstanceMachineType" =>
        LET uri == util.args[1]
            targetType == util.args[2]
            slashes == {i \in 1..Len(uri) : uri[i] = "/"}
            last == IF slashes = {} THEN 0
                    ELSE CHOOSE i \in slashes : \A j \in slashes : j <= i
        IN  /\ util.ret = SubSeq(uri, 1, last) \o targetType
            /\ (\A i \in 1..Len(targetType) : targetType[i] # "/") =>
                    /\ GetLastSplit(util.ret, "/") = targetType
                    /\ GetSnapshotOfDisk(util.ret) = targetType

\* C17's case: the URI has several segments, a last one that is not empty, and
\* the target type is another one
C17_Witness ==
    /\ util.op = "PatchInstanceMachineType"
    /\ util.args[1] = <<"a", "/", "a", "a">> /\ util.args[2] = <<"b">>
    /\ util.ret = <<"a", "/", "b">>

\* C18: whenever the API call of Insert, List or Rollback fails, the method
\* returns a nil result with the one error errRollingUpdate, whatever the
\* error of the call was; when the call succeeds it returns the call's result
\* and a nil error.
C18_RpuTranslatesErrors ==
    util.op \in {"Insert", "List", "Rollback"} =>
        LET api == util.args[Len(util.args)] IN
        IF api[2] # "nil"
        THEN util.ret = 0 /\ util.err = "RollingUpdate Error"
        ELSE util.ret = api[1] /\ util.err = "nil"

\* C18's case: the API call of a Rollback failed with an error of its own
C18_Witness ==
    /\ util.op = "Rollback" /\ util.args[Len(util.args)] = <<0, "forbidden">>
    /\ util.err = "RollingUpdate Error"

\* the number an IPv4 address in its 4-byte form stands for
IPNumber(a) == ((a[1] * 256 + a[2]) * 256 + a[3]) * 256 + a[4]

\* C19: for a valid IPv4 string ip and IPv4 addresses start and end, each in
\* its 4-byte or its 16-byte form, CheckIPInRange returns true exactly when
\* start <= ip <= end as numbers; for a string that is no valid IPv4 address
\* it returns false.
C19_IPInRangeIsNumeric ==
    util.op = "CheckIPInRange" =>
        LET ip == util.args[1]
            start == To4(util.args[2])
            end == To4(util.args[3])
        IN  IF ip \in IPv4s
            THEN util.ret = (IPNumber(start) <= IPNumber(ip) /\ IPNumber(ip) <= IPNumber(end))
            ELSE util.ret = FALSE

\* C20: each invocation of a probe sends exactly one value on its observer
\* channel and then returns without polling again: it never sends twice, it
\* has returned exactly when it has sent, it sent true only on a poll that
\* observed the target and false only on a timeout check that found the
\* timeout exceeded, nothing of it changes after the send, and every
\* invocation gets to send.
C20_ProbeSendsOnce ==
    /\ [](probe.kind # "none" =>
            /\ Len(probe.sent) <= 1
            /\ Len(probe.sent) = 1 <=> probe.pc = "exit"
            /\ probe.sent = <<TRUE>> =>
                    /\ probe.hit /\ ~probe.seen.err
                    /\ ProbeSatisfied(probe.kind, probe.seen, probe.target)
            /\ probe.sent = <<FALSE>> =>
                    ~probe.hit /\ probe.elapsed > ProbeTimeout(probe.kind))
    /\ [][ (probe.sent # <<>> /\ probe' # probe) => probe'.sent = <<>> ]_vars
    /\ (probe.kind # "none" /\ probe.sent = <<>>) ~> (probe.sent # <<>>)

\* C20's case: a disk probe has sent false and returned, after polls that failed
\* and polls that found the disk not ready
C20_Witness ==
    /\ probe.kind = "DiskCreation" /\ probe.pc = "exit" /\ probe.sent = <<FALSE>>
    /\ probe.elapsed % PollSleep # 0

\* the calls that wait for a probe of their own
WaitingCalls == {"NewVM", "NewDisk", "SetMachineType", "NewInstanceTemplate"}

\* C21: NewVM, NewDisk, SetMachineType and NewInstanceTemplate always
\* eventually return, every lookup returning and the clock advancing: a call
\* that waits on its observer channel gets to return, whatever the cloud
\* reports, and when it has returned its probe goroutine has returned too,
\* its one send taken by the call's receive.
C21_WaitingCallsReturn ==
    /\ \A op \in WaitingCalls :
            (mgr.op = op /\ mgr.pc = "recv") ~> (mgr.op = op /\ mgr.pc = "returned")
    /\ [](\A op \in WaitingCalls :
            (mgr.op = op /\ mgr.pc = "returned" /\ mgr.reqOk) =>
                /\ probe.pc = "exit"
                /\ probe.sent = <<mgr.err = "nil">>)

\* C21's case: SetMachineType returned on the timeout, the last lookup of its
\* probe having failed
C21_Witness ==
    /\ mgr.op = "SetMachineType" /\ mgr.pc = "returned" /\ mgr.err = "timeout"
    /\ probe.pc = "exit" /\ probe.seen.err

\* C22: a lookup that fails makes the probe sleep and go back to the top of
\* its loop, never send; false is sent only by the timeout check that found
\* the timeout exceeded; and a poll is issued only by a timeout check that
\* found it not exceeded.
C22_LookupErrorIsNotReady ==
    /\ [][ (probe.pc = "poll" /\ probe'.pc # "poll" /\ probe'.seen.err) =>
                /\ probe'.pc = "sleep" /\ probe'.nap = PollSleep
                /\ probe'.sent = <<>> /\ probe'.val = probe.val ]_vars
    /\ [][ (probe.pc = "sleep" /\ probe' # probe) =>
                /\ probe'.pc = "check"
                /\ probe'.elapsed = probe.elapsed + probe.nap ]_vars
    /\ [][ (probe.pc # "send" /\ probe'.pc = "send" /\ ~probe'.val) =>
                /\ probe.pc = "check"
                /\ probe.elapsed > ProbeTimeout(probe.kind) ]_vars
    /\ [][ (probe.pc # "poll" /\ probe'.pc = "poll") =>
                /\ probe.pc = "check"
                /\ probe.elapsed <= ProbeTimeout(probe.kind) ]_vars

\* C22's case: the template probe sent true on a lookup that followed lookups
\* that failed
C22_Witness ==
    /\ probe.kind = "InstanceTemplateCreation" /\ probe.sent = <<TRUE>>
    /\ probe.elapsed >= 2 * PollSleep

=============================================================================
